---- MODULE Spec2Model ----
(***************************************************************************)
(* Model of src/model/utils.py: the waveform reconstruction path           *)
(* (spectrogram2wav -> griffin_lim -> invert_spectrogram) and the          *)
(* AverageMeter running average.                                           *)
(*                                                                         *)
(* Numbers are exact rationals, so every equality below is an equality of  *)
(* real values; floating-point rounding is outside the model.  The         *)
(* short-time transforms are computed as librosa computes them (window,    *)
(* inverse FFT, overlap-add, window-sum normalisation, centre trimming,    *)
(* reflect padding, framing, forward FFT) for the transform size whose     *)
(* bins are all real: n_fft = 2 (DC and Nyquist).                          *)
(***************************************************************************)
EXTENDS Integers, Sequences, FiniteSets, TLC

VARIABLES
    pc,            \* position of the running call
    err,           \* "none", or the exception that ended the call
    args,          \* the configuration object read by log_figure (args.*)
    heap,          \* array buffers: buffer name -> contents
    mag,           \* spectrogram2wav local: reference [buf, transposed] or "unbound"
    hop_length,    \* spectrogram2wav / griffin_lim local
    win_length,    \* spectrogram2wav / griffin_lim local
    n_fft,         \* spectrogram2wav / griffin_lim local
    wav,           \* spectrogram2wav local
    spectrogram,   \* griffin_lim parameter: buffer name
    iter_vocoder,  \* griffin_lim parameter
    X_best,        \* griffin_lim local: buffer name
    i,             \* griffin_lim: number of completed loop iterations
    X_t,           \* griffin_lim local: last synthesised waveform
    est,           \* griffin_lim local: last analysed spectrum
    phase,         \* griffin_lim local
    y,             \* griffin_lim return value
    calls,         \* log of the transform calls made, in order
    entry,         \* history: the inputs as they were when the call was made
    val, avg, sum, count,   \* AverageMeter fields
    am_pc,         \* AverageMeter: "ok", or "raised" after ZeroDivisionError
    hist           \* history: the (val, n) of the updates since the last reset

vars == <<pc, err, args, heap, mag, hop_length, win_length, n_fft, wav,
          spectrogram, iter_vocoder, X_best, i, X_t, est, phase, y, calls,
          entry, val, avg, sum, count, am_pc, hist>>

s2wVars == <<pc, err, args, heap, mag, hop_length, win_length, n_fft, wav,
             spectrogram, iter_vocoder, X_best, i, X_t, est, phase, y, calls,
             entry>>

amVars == <<val, avg, sum, count, am_pc, hist>>

----------------------------------------------------------------------------
(* Bounds of the model.                                                    *)

MaxFrames == 3      \* spectrograms have 3 .. MaxFrames time frames
MaxIter == 2        \* a direct griffin_lim call runs 0 .. MaxIter iterations
MaxUpdates == 3     \* AverageMeter: updates between two resets
MaxN == 2           \* AverageMeter: the weight n of an update is -1 .. MaxN
MaxVal == 2         \* AverageMeter: the value of an update is -1 .. MaxVal

----------------------------------------------------------------------------
(* Exact arithmetic: a number is <<n, d>> with d > 0 in lowest terms;      *)
(* <<0, 0>> is a non-finite result (nan or inf), which every operation     *)
(* propagates, as IEEE arithmetic does.                                    *)

Abs(x) == IF x < 0 THEN -x ELSE x

RECURSIVE Gcd(_, _)
Gcd(a, b) == IF b = 0 THEN a ELSE Gcd(b, a % b)

NonFinite == <<0, 0>>

IsFinite(a) == a[2] # 0

Norm(n, d) ==
    IF d = 0 THEN NonFinite
    ELSE LET g == Gcd(Abs(n), Abs(d))
             s == IF d < 0 THEN -1 ELSE 1
         IN  <<(s * n) \div g, (s * d) \div g>>

R(n) == <<n, 1>>

RAdd(a, b) ==
    IF ~IsFinite(a) \/ ~IsFinite(b) THEN NonFinite
    ELSE LET g == Gcd(a[2], b[2])
         IN  Norm(a[1] * (b[2] \div g) + b[1] * (a[2] \div g), (a[2] \div g) * b[2])

RNeg(a) == <<-a[1], a[2]>>

RSub(a, b) == RAdd(a, RNeg(b))

RMul(a, b) ==
    IF ~IsFinite(a) \/ ~IsFinite(b) THEN NonFinite
    ELSE LET g1 == Gcd(Abs(a[1]), b[2])
             g2 == Gcd(Abs(b[1]), a[2])
         IN  Norm((a[1] \div g1) * (b[1] \div g2), (a[2] \div g2) * (b[2] \div g1))

RDiv(a, b) ==
    IF ~IsFinite(a) \/ ~IsFinite(b) \/ b[1] = 0 THEN NonFinite
    ELSE RMul(a, Norm(b[2], b[1]))

RAbs(a) == <<Abs(a[1]), a[2]>>

\* -1, 0 or 1 as a < b, a = b, a > b (finite operands), by continued fractions
\* so that no cross product is formed.
RECURSIVE RCmp(_, _)
RCmp(a, b) ==
    LET qa == a[1] \div a[2]
        qb == b[1] \div b[2]
        ra == a[1] % a[2]
        rb == b[1] % b[2]
    IN  IF qa < qb THEN -1
        ELSE IF qa > qb THEN 1
        ELSE IF ra = 0 /\ rb = 0 THEN 0
        ELSE IF ra = 0 THEN -1
        ELSE IF rb = 0 THEN 1
        ELSE RCmp(<<b[2], rb>>, <<a[2], ra>>)

\* comparisons with a non-finite operand are false
RLt(a, b) == IsFinite(a) /\ IsFinite(b) /\ RCmp(a, b) < 0
RLe(a, b) == IsFinite(a) /\ IsFinite(b) /\ RCmp(a, b) <= 0

\* np.maximum / np.minimum: a non-finite operand propagates
RMax(a, b) == IF ~IsFinite(a) \/ ~IsFinite(b) THEN NonFinite
              ELSE IF RLt(a, b) THEN b ELSE a
RMin(a, b) == IF ~IsFinite(a) \/ ~IsFinite(b) THEN NonFinite
              ELSE IF RLt(b, a) THEN b ELSE a

\* int(x): truncation toward zero
Trunc(a) == IF a[1] >= 0 THEN a[1] \div a[2] ELSE -((-a[1]) \div a[2])

RECURSIVE IntPow(_, _)
IntPow(a, k) == IF k = 0 THEN R(1) ELSE RMul(a, IntPow(a, k - 1))

\* a ** p for an integral exponent p (as a number <<p, 1>>); a power with any
\* other exponent is irrational and has no value here
RPow(a, p) ==
    CASE ~IsFinite(a) \/ ~IsFinite(p) -> NonFinite
      [] IsFinite(a) /\ p[2] = 1 /\ p[1] >= 0 -> IntPow(a, p[1])
      [] IsFinite(a) /\ p[2] = 1 /\ p[1] < 0 -> RDiv(R(1), IntPow(a, -p[1]))

----------------------------------------------------------------------------
(* Arrays: a vector is a sequence of numbers, a matrix a sequence of rows. *)

\* a sequence given as a function, as the tuple of its values
Tuple(f) == f \o <<>>

Shape(m) == <<Len(m), IF Len(m) = 0 THEN 0 ELSE Len(m[1])>>

Transpose(m) ==
    Tuple([c \in 1..Shape(m)[2] |-> Tuple([r \in 1..Len(m) |-> m[r][c]])])

IsZero(a) == a = R(0)

AllZero(m) == \A r \in 1..Len(m) : \A c \in 1..Len(m[r]) : IsZero(m[r][c])

AllZeroV(v) == \A k \in 1..Len(v) : IsZero(v[k])

Broadcastable(sa, sb) ==
    \A k \in 1..2 : sa[k] = sb[k] \/ sa[k] = 1 \/ sb[k] = 1

\* a * b elementwise under numpy broadcasting (shapes Broadcastable)
Mul(a, b) ==
    LET sa == Shape(a)
        sb == Shape(b)
        rows == IF sa[1] > sb[1] THEN sa[1] ELSE sb[1]
        cols == IF sa[2] > sb[2] THEN sa[2] ELSE sb[2]
        At(m, s, r, c) == m[IF s[1] = 1 THEN 1 ELSE r][IF s[2] = 1 THEN 1 ELSE c]
    IN  Tuple([r \in 1..rows |->
            Tuple([c \in 1..cols |-> RMul(At(a, sa, r, c), At(b, sb, r, c))])])

RECURSIVE SumTo(_, _)
SumTo(v, k) == IF k = 0 THEN R(0) ELSE RAdd(SumTo(v, k - 1), v[k])

SumSeq(v) == SumTo(v, Len(v))

----------------------------------------------------------------------------
(* The short-time transforms behind librosa.istft and librosa.stft, for    *)
(* the sizes whose arithmetic is rational.                                 *)

\* scipy.signal.get_window("hann", N, fftbins=True): 0.5 - 0.5 cos(2 pi k / N)
HannWindow(N) ==
    CASE N = 0 -> <<>>
      [] N = 1 -> <<R(1)>>
      [] N = 2 -> <<R(0), R(1)>>
      [] N = 4 -> <<R(0), <<1, 2>>, R(1), <<1, 2>>>>

\* util.pad_center(w, n): zeros on both sides; Len(w) <= n
PadCenter(w, n) ==
    LET lpad == (n - Len(w)) \div 2
    IN  [k \in 1..n |-> IF k > lpad /\ k <= lpad + Len(w) THEN w[k - lpad] ELSE R(0)]

\* the real inverse FFT of one frame of real-valued bins (2 bins: n = 2,
\* 3 bins: n = 4), the spectrum completed by Hermitian symmetry
IRfft(col) ==
    CASE Len(col) = 2 ->
           <<RDiv(RAdd(col[1], col[2]), R(2)), RDiv(RSub(col[1], col[2]), R(2))>>
      [] Len(col) = 3 ->
           LET two == RMul(R(2), col[2])
               odd == RDiv(RSub(col[1], col[3]), R(4))
           IN  <<RDiv(RAdd(RAdd(col[1], two), col[3]), R(4)), odd,
                 RDiv(RAdd(RSub(col[1], two), col[3]), R(4)), odd>>

\* the real forward FFT of one frame of n samples (n = 1 or 2): 1 + n \div 2 bins
Rfft(frame) ==
    CASE Len(frame) = 1 -> <<frame[1]>>
      [] Len(frame) = 2 -> <<RAdd(frame[1], frame[2]), RSub(frame[1], frame[2])>>

\* the n_fft librosa.istft takes from the number of bins of its argument
InferredNfft(S) == 2 * (Len(S) - 1)

\* istft raises ParameterError in pad_center when the window is longer than n_fft
IstftRaises(S, hop, win) == win > InferredNfft(S)

\* librosa.istft(S, hop, win_length=win, window="hann"), center=True:
\* every frame is inverse-transformed and windowed, the frames are
\* overlap-added, each sample is divided by the window sum of squares where
\* that is above zero, and n_fft \div 2 samples are cut off both ends
Istft(S, hop, win) ==
    LET nfft == InferredNfft(S)
        T == Len(S[1])
        w == Tuple(PadCenter(HannWindow(win), nfft))
        siglen == nfft + hop * (T - 1)
        frames == Tuple([t \in 1..T |-> IRfft([b \in 1..Len(S) |-> S[b][t]])])
        In(s, t) == s - (t - 1) * hop >= 1 /\ s - (t - 1) * hop <= nfft
        yraw(s) == SumSeq([t \in 1..T |->
                      IF In(s, t)
                      THEN RMul(w[s - (t - 1) * hop], frames[t][s - (t - 1) * hop])
                      ELSE R(0)])
        wss(s) == SumSeq([t \in 1..T |->
                      IF In(s, t)
                      THEN RMul(w[s - (t - 1) * hop], w[s - (t - 1) * hop])
                      ELSE R(0)])
        yn == [s \in 1..siglen |->
                 LET d == wss(s)
                 IN  IF RLt(R(0), d) THEN RDiv(yraw(s), d) ELSE yraw(s)]
    IN  SubSeq(yn, (nfft \div 2) + 1, siglen - (nfft \div 2))

\* np.pad(v, k, mode="reflect")
ReflectPad(v, k) ==
    [j \in 1..k |-> v[k + 2 - j]] \o v \o [j \in 1..k |-> v[Len(v) - j]]

\* stft raises on an empty signal (reflect padding) and on a hop below 1 (framing)
StftRaises(v, nfft, hop, win) == hop < 1 \/ Len(v) <= nfft \div 2

\* librosa.stft(v, nfft, hop, win_length=win), window="hann", center=True
Stft(v, nfft, hop, win) ==
    LET p == ReflectPad(v, nfft \div 2)
        w == Tuple(PadCenter(HannWindow(win), nfft))
        nframes == 1 + (Len(p) - nfft) \div hop
        bins == Tuple([t \in 1..nframes |->
                    Rfft([k \in 1..nfft |-> RMul(w[k], p[(t - 1) * hop + k])])])
    IN  Tuple([b \in 1..(1 + nfft \div 2) |-> Tuple([t \in 1..nframes |-> bins[t][b]])])

----------------------------------------------------------------------------
(* griffin_lim and invert_spectrogram.                                     *)

\* the floor of the phase division, 1e-8
EPS == <<1, 100000000>>

\* mutant: the absolute value forgotten, est / np.maximum(1e-8, est)
PhaseNoAbs(e) == RDiv(e, RMax(EPS, e))

\* mutant: the floor forgotten, est / np.abs(est)
PhaseNoFloor(e) == RDiv(e, RAbs(e))

\* one element of  est / np.maximum(1e-8, np.abs(est))
PhaseOf(e) == RDiv(e, RMax(EPS, RAbs(e)))

\* line 178 on the whole array
PhaseArray(E) ==
    Tuple([r \in 1..Len(E) |-> Tuple([c \in 1..Len(E[r]) |-> PhaseOf(E[r][c])])])

\* np.real of the (real-valued) array librosa.istft returns
Real(v) == v

\* one entry of the call log: the parameters the transform worked with
Call(op, nfft, hop, win, outcome) ==
    [op |-> op, n_fft |-> nfft, hop_length |-> hop, win_length |-> win,
     window |-> "hann", outcome |-> outcome]

\* invert_spectrogram(S, win_length, hop_length) as logged
IstftCall(S) ==
    Call("istft", InferredNfft(S), hop_length, win_length,
         IF IstftRaises(S, hop_length, win_length) THEN "raised" ELSE "ok")

\* librosa.stft(v, n_fft, hop_length, win_length=win_length) as logged
StftCall(v) ==
    Call("stft", n_fft, hop_length, win_length,
         IF StftRaises(v, n_fft, hop_length, win_length) THEN "raised" ELSE "ok")

\* the buffer line 179 binds X_best to: a new array, the product's result
ProductTarget == "xbest"

glLocals == <<spectrogram, iter_vocoder, n_fft, hop_length, win_length>>
s2wState == <<args, mag, wav, entry>>

\* line 174: X_best = copy.deepcopy(spectrogram)
GLEnter ==
    /\ pc = "gl_entry"
    /\ heap' = [heap EXCEPT !["xbest"] = heap[spectrogram]]
    /\ X_best' = "xbest"
    /\ i' = 0
    /\ pc' = "gl_loop"
    /\ UNCHANGED <<err, X_t, est, phase, y, calls, glLocals, s2wState, amVars>>

\* mutant: one pass too many, range(iter_vocoder + 1)
LoopOffByOne == i <= iter_vocoder

\* line 175: for i in range(iter_vocoder) has another pass to make
LoopContinues == i < iter_vocoder

\* lines 175-179: one pass of the loop body (X_t, est and phase are each
\* computed once and bound)
GLIterate ==
    /\ pc = "gl_loop"
    /\ LoopContinues
    /\ \E S \in {heap[X_best]} :
       \E xt \in {IF IstftRaises(S, hop_length, win_length) THEN <<>>
                  ELSE Istft(S, hop_length, win_length)} :
       \E e \in {IF StftRaises(xt, n_fft, hop_length, win_length) THEN <<>>
                 ELSE Stft(xt, n_fft, hop_length, win_length)} :
       \E ph \in {PhaseArray(e)} :
           IF IstftRaises(S, hop_length, win_length)
           THEN /\ calls' = Append(calls, IstftCall(S))
                /\ pc' = "error"
                /\ err' = "istft: ParameterError"
                /\ UNCHANGED <<heap, X_best, i, X_t, est, phase>>
           ELSE IF StftRaises(xt, n_fft, hop_length, win_length)
           THEN /\ calls' = calls \o <<IstftCall(S), StftCall(xt)>>
                /\ X_t' = xt
                /\ pc' = "error"
                /\ err' = "stft: error"
                /\ UNCHANGED <<heap, X_best, i, est, phase>>
           ELSE IF ~Broadcastable(Shape(heap[spectrogram]), Shape(ph))
           THEN /\ calls' = calls \o <<IstftCall(S), StftCall(xt)>>
                /\ X_t' = xt
                /\ est' = e
                /\ phase' = ph
                /\ pc' = "error"
                /\ err' = "multiply: ValueError (shapes)"
                /\ UNCHANGED <<heap, X_best, i>>
           ELSE /\ calls' = calls \o <<IstftCall(S), StftCall(xt)>>
                /\ X_t' = xt
                /\ est' = e
                /\ phase' = ph
                /\ heap' = [heap EXCEPT ![ProductTarget] = Mul(heap[spectrogram], ph)]
                /\ X_best' = ProductTarget
                /\ i' = i + 1
                /\ UNCHANGED <<pc, err>>
    /\ UNCHANGED <<y, glLocals, s2wState, amVars>>

\* lines 180-182: the final synthesis and the return
GLFinal ==
    /\ pc = "gl_loop"
    /\ ~LoopContinues
    /\ LET S == heap[X_best]
       IN  /\ calls' = Append(calls, IstftCall(S))
           /\ IF IstftRaises(S, hop_length, win_length)
              THEN /\ pc' = "error"
                   /\ err' = "istft: ParameterError"
                   /\ UNCHANGED <<X_t, y>>
              ELSE /\ X_t' = Istft(S, hop_length, win_length)
                   /\ y' = Real(X_t')
                   /\ pc' = "gl_return"
                   /\ UNCHANGED err
    /\ UNCHANGED <<heap, X_best, i, est, phase, glLocals, s2wState, amVars>>

----------------------------------------------------------------------------
(* spectrogram2wav, as log_figure calls it.                                *)

\* the iteration count line 206 passes to griffin_lim
GriffinLimIters == 100

\* librosa.effects.trim's default hop: a signal shorter than one hop is one frame
TrimHop == 512

\* a reference to an array: the buffer it reads, and whether it is the
\* transposed view of that buffer
Ref(buf, transposed) == [buf |-> buf, T |-> transposed]

Deref(h, r) == IF r.T THEN Transpose(h[r.buf]) ELSE h[r.buf]

\* writing a whole array through a reference
Store(h, r, value) ==
    [h EXCEPT ![r.buf] = IF r.T THEN Transpose(value) ELSE value]

\* mutant: the upper limit forgotten, np.maximum(v, lo)
ClipLowerOnly(v, lo, hi) == RMax(v, lo)

\* np.clip(v, lo, hi) = minimum(maximum(v, lo), hi)
Clip(v, lo, hi) == RMin(RMax(v, lo), hi)

\* mutant: the offset forgotten, clip(v, 0, 1) * max_db + ref_db
ScaleNoOffset(v, max_db, ref_db) == RAdd(RMul(Clip(v, R(0), R(1)), max_db), ref_db)

\* line 200, one element: (clip(v, 0, 1) * max_db) - max_db + ref_db
Scale(v, max_db, ref_db) ==
    RAdd(RSub(RMul(Clip(v, R(0), R(1)), max_db), max_db), ref_db)

\* line 203, one element: np.power(10.0, db * 0.05)
ToAmp(db) == RPow(R(10), RMul(db, <<1, 20>>))

\* line 200 on the whole array
ScaleArray(m, max_db, ref_db) ==
    Tuple([r \in 1..Len(m) |-> Tuple([c \in 1..Len(m[r]) |-> Scale(m[r][c], max_db, ref_db)])])

\* line 203 on the whole array
ToAmpArray(m) ==
    Tuple([r \in 1..Len(m) |-> Tuple([c \in 1..Len(m[r]) |-> ToAmp(m[r][c])])])

\* line 206: mag ** power
PowArray(m, p) ==
    Tuple([r \in 1..Len(m) |-> Tuple([c \in 1..Len(m[r]) |-> RPow(m[r][c], p)])])

\* mutant: the result written in place, np.clip(mag, 0, 1, out=mag) and so on
DenormInPlace == mag

\* the array line 200 binds mag to: a new array, the result of the expression
DenormTarget == Ref("db", FALSE)

\* signal.lfilter([1], [1, -p], x): out[n] = x[n] + p * out[n-1]
RECURSIVE LFilter(_, _, _)
LFilter(p, x, last) ==
    IF Len(x) = 0 THEN <<>>
    ELSE LET o == RAdd(x[1], RMul(p, last))
         IN  <<o>> \o LFilter(p, Tail(x), o)

\* librosa.effects.trim(v)[0] for a signal of a single analysis frame
\* (shorter than TrimHop samples): that frame is at 0 dB of its own maximum,
\* so it is non-silent and the slice is [0 : min(len, TrimHop)]
Trim(v) == SubSeq(v, 1, IF Len(v) < TrimHop THEN Len(v) ELSE TrimHop)

glState == <<X_best, i, X_t, est, phase, y, calls>>

\* lines 192-194
S2WParams ==
    /\ pc = "s2w_entry"
    /\ hop_length' = Trunc(RMul(args.frame_shift, R(args.sampling_rate)))
    /\ win_length' = Trunc(RMul(args.frame_length, R(args.sampling_rate)))
    /\ n_fft' = win_length'
    /\ pc' = "transpose"
    /\ UNCHANGED <<err, heap, spectrogram, iter_vocoder, glState, s2wState, amVars>>

\* line 197: mag = mag.T, a view of the caller's array
S2WTranspose ==
    /\ pc = "transpose"
    /\ mag' = Ref(mag.buf, ~mag.T)
    /\ pc' = "denormalize"
    /\ UNCHANGED <<err, heap, args, wav, entry, glLocals, glState, amVars>>

\* line 200
S2WDenormalize ==
    /\ pc = "denormalize"
    /\ heap' = Store(heap, DenormTarget,
                     ScaleArray(Deref(heap, mag), args.max_db, args.ref_db))
    /\ mag' = DenormTarget
    /\ pc' = "amplitude"
    /\ UNCHANGED <<err, args, wav, entry, glLocals, glState, amVars>>

\* line 203
S2WAmplitude ==
    /\ pc = "amplitude"
    /\ heap' = [heap EXCEPT !["amp"] = ToAmpArray(Deref(heap, mag))]
    /\ mag' = Ref("amp", FALSE)
    /\ pc' = "call_griffin_lim"
    /\ UNCHANGED <<err, args, wav, entry, glLocals, glState, amVars>>

\* line 206, the call: griffin_lim(mag ** power, 100, n_fft, hop_length, win_length)
S2WCallGriffinLim ==
    /\ pc = "call_griffin_lim"
    /\ LET S == PowArray(Deref(heap, mag), args.power)
       IN  /\ heap' = [heap EXCEPT !["spec"] = S]
           /\ entry' = [entry EXCEPT !.spec = S]
    /\ spectrogram' = "spec"
    /\ iter_vocoder' = GriffinLimIters
    /\ pc' = "gl_entry"
    /\ UNCHANGED <<err, args, mag, wav, n_fft, hop_length, win_length, glState, amVars>>

\* line 209, after griffin_lim has returned
S2WDeEmphasis ==
    /\ pc = "gl_return"
    /\ wav' = LFilter(args.preemphasis, y, R(0))
    /\ pc' = "trim"
    /\ UNCHANGED <<err, heap, args, mag, entry, glLocals, glState, amVars>>

\* line 212
S2WTrim ==
    /\ pc = "trim"
    /\ wav' = Trim(wav)
    /\ pc' = "return"
    /\ UNCHANGED <<err, heap, args, mag, entry, glLocals, glState, amVars>>

\* line 214: the samples are returned (their rounding to float32 is not modelled)
S2WReturn ==
    /\ pc = "return"
    /\ pc' = "done"
    /\ UNCHANGED <<err, heap, args, mag, wav, entry, glLocals, glState, amVars>>

----------------------------------------------------------------------------
(* AverageMeter.                                                           *)

\* mutant: the weight forgotten, self.sum += val
AMSumUnweighted(s, v, n) == s + v

\* line 146
AMSum(s, v, n) == s + v * n

\* line 147
AMCount(c, n) == c + n

\* line 148: true division
AMAvg(s, c) == RDiv(R(s), R(c))

\* lines 138-142
AMReset ==
    /\ am_pc = "ok"
    /\ hist # <<>>
    /\ val' = 0
    /\ avg' = R(0)
    /\ sum' = 0
    /\ count' = 0
    /\ hist' = <<>>
    /\ UNCHANGED <<am_pc, s2wVars>>

\* lines 144-148; line 148 raises ZeroDivisionError when count is 0, after
\* val, sum and count have been assigned
AMUpdate(v, n) ==
    /\ am_pc = "ok"
    /\ Len(hist) < MaxUpdates
    /\ val' = v
    /\ sum' = AMSum(sum, v, n)
    /\ count' = AMCount(count, n)
    /\ IF count' = 0
       THEN am_pc' = "raised" /\ avg' = avg
       ELSE am_pc' = am_pc /\ avg' = AMAvg(sum', count')
    /\ hist' = Append(hist, <<v, n>>)
    /\ UNCHANGED s2wVars

----------------------------------------------------------------------------
(* Initial states and specifications.                                      *)

Buffers == {"caller", "db", "amp", "spec", "xbest"}

EmptyHeap == [b \in Buffers |-> <<>>]

NoArgs == [max_db |-> R(0), ref_db |-> R(0), preemphasis |-> R(0), power |-> R(1),
           sampling_rate |-> 0, frame_shift |-> R(0), frame_length |-> R(0),
           griffin_lim_iterations |-> 0]

InitAM ==
    /\ val = 0
    /\ avg = R(0)
    /\ sum = 0
    /\ count = 0
    /\ am_pc = "ok"
    /\ hist = <<>>

InitLocals ==
    /\ err = "none"
    /\ wav = <<>>
    /\ X_best = "unbound"
    /\ i = 0
    /\ X_t = <<>>
    /\ est = <<>>
    /\ phase = <<>>
    /\ y = <<>>
    /\ calls = <<>>

\* the values of a normalised spectrogram: below, inside and above [0, 1]
MagVals == <<<<-1, 2>>, R(0), <<1, 2>>, R(1), <<3, 2>>>>

\* (T, 1+n_fft//2) arrays of 3 .. MaxFrames frames and 2 or 3 bins
MagInputs ==
    {[t \in 1..T |-> [f \in 1..F |-> MagVals[((k + (t - 1) + 2 * (f - 1)) % 5) + 1]]] :
        k \in 0..1, T \in 3..MaxFrames, F \in {2, 3}}

\* the configurations: valid and invalid max_db, preemphasis and hop length;
\* the widest decibel range is not combined with the squaring exponent, whose
\* amplitudes span more digits than the model's integers hold
ArgsInputs ==
    {a \in [max_db : {R(80), R(40), R(0)},
            ref_db : {R(20)},
            preemphasis : {<<1, 2>>, <<3, 2>>},
            power : {R(1), R(2)},
            sampling_rate : {2},
            frame_shift : {<<1, 4>>, <<1, 2>>, R(1)},
            frame_length : {R(1)},
            griffin_lim_iterations : {2, GriffinLimIters}] :
        a.max_db = R(80) => a.power = R(1)}

\* log_figure calls spectrogram2wav(output, args.max_db, ...); the values are
\* such that every decibel value is a multiple of 20 and every power exact
Init ==
    /\ pc = "s2w_entry"
    /\ args \in ArgsInputs
    /\ \E m \in MagInputs :
          /\ heap = [EmptyHeap EXCEPT !["caller"] = m]
          /\ entry = [mag |-> m, spec |-> <<>>]
    /\ mag = Ref("caller", FALSE)
    /\ hop_length = 0
    /\ win_length = 0
    /\ n_fft = 0
    /\ spectrogram = "unbound"
    /\ iter_vocoder = 0
    /\ InitLocals
    /\ InitAM

Next ==
    \/ S2WParams
    \/ S2WTranspose
    \/ S2WDenormalize
    \/ S2WAmplitude
    \/ S2WCallGriffinLim
    \/ GLEnter
    \/ GLIterate
    \/ GLFinal
    \/ S2WDeEmphasis
    \/ S2WTrim
    \/ S2WReturn

Spec == Init /\ [][Next]_vars

\* the frames (DC bin, Nyquist bin) of a direct griffin_lim call: silent, two
\* equal magnitudes, magnitudes 1e-8 apart, and one bin silent
GLFrames ==
    {<<R(0), R(0)>>, <<R(1), R(1)>>, <<RAdd(R(1), EPS), R(1)>>,
     <<R(1), R(0)>>, <<R(0), R(1)>>}

\* [1+n_fft//2, t] magnitude arrays of 3 .. MaxFrames frames
GLInputs ==
    UNION {{[b \in 1..2 |-> [t \in 1..T |-> cols[t][b]]] : cols \in [1..T -> GLFrames]} :
              T \in 3..MaxFrames}

\* griffin_lim(spectrogram, iter_vocoder, n_fft, hop_length, win_length) called
\* on its own, n_fft = win_length = 2
InitGL ==
    /\ pc = "gl_entry"
    /\ args = NoArgs
    /\ \E S \in GLInputs :
          /\ heap = [EmptyHeap EXCEPT !["spec"] = S]
          /\ entry = [mag |-> <<>>, spec |-> S]
    /\ mag = "unbound"
    /\ hop_length \in {1, 2}
    /\ win_length = 2
    /\ n_fft = 2
    /\ spectrogram = "spec"
    /\ iter_vocoder \in 0..MaxIter
    /\ InitLocals
    /\ InitAM

NextGL == GLEnter \/ GLIterate \/ GLFinal

SpecGL == InitGL /\ [][NextGL]_vars

InitMeter ==
    /\ pc = "idle"
    /\ args = NoArgs
    /\ heap = EmptyHeap
    /\ entry = [mag |-> <<>>, spec |-> <<>>]
    /\ mag = "unbound"
    /\ hop_length = 0
    /\ win_length = 0
    /\ n_fft = 0
    /\ spectrogram = "unbound"
    /\ iter_vocoder = 0
    /\ InitLocals
    /\ InitAM

NextMeter ==
    \/ AMReset
    \/ \E v \in -1..MaxVal, n \in -1..MaxN : AMUpdate(v, n)

SpecMeter == InitMeter /\ [][NextMeter]_vars

----------------------------------------------------------------------------
(* Properties.                                                             *)

\* the target magnitude M of the running griffin_lim call, as it was passed
M == entry.spec

AfterIteration == pc \in {"gl_loop", "gl_return"} /\ i >= 1

Elements(m) == {<<r, c>> : r \in 1..Len(m), c \in 1..Shape(m)[2]}

\* the configuration holds a value the design calls invalid
InvalidParameters ==
    \/ Trunc(RMul(args.frame_shift, R(args.sampling_rate))) <= 0
    \/ Trunc(RMul(args.frame_length, R(args.sampling_rate))) <= 0
    \/ ~(RLt(R(0), args.preemphasis) /\ RLt(args.preemphasis, R(1)))
    \/ RLe(args.max_db, R(0))

\* C1 as claimed: after the update X_best = spectrogram * phase of every
\* iteration, the magnitude of X_best equals the target magnitude M at every
\* (bin, frame) element, also where est is zero or below the 1e-8 floor.
C1_MagnitudeEqualsTargetEverywhere ==
    AfterIteration =>
        \A p \in Elements(M) : RAbs(heap[X_best][p[1]][p[2]]) = M[p[1]][p[2]]

\* C1 as amended: after the update of every iteration, the magnitude of X_best
\* equals M at every element where |est| >= 1e-8, and equals M * |est| / 1e-8
\* (so 0 where est is 0, and never more than M) at every element where
\* |est| < 1e-8.
C1_MagnitudeEqualsTargetAboveFloor ==
    AfterIteration =>
        \A p \in Elements(M) :
            LET x == RAbs(heap[X_best][p[1]][p[2]])
                e == RAbs(est[p[1]][p[2]])
                m == M[p[1]][p[2]]
            IN  /\ RLe(EPS, e) => x = m
                /\ RLt(e, EPS) => x = RMul(m, RDiv(e, EPS)) /\ RLe(x, m)

\* an iteration has run in which one element of est is below the floor but
\* not zero, under a non-zero target, and another is above the floor
C1_Witness ==
    /\ AfterIteration
    /\ \E p \in Elements(M) :
          /\ RLt(R(0), RAbs(est[p[1]][p[2]]))
          /\ RLt(RAbs(est[p[1]][p[2]]), EPS)
          /\ RLt(R(0), M[p[1]][p[2]])
          /\ RLt(RAbs(heap[X_best][p[1]][p[2]]), M[p[1]][p[2]])
    /\ \E p \in Elements(M) :
          /\ RLe(EPS, RAbs(est[p[1]][p[2]]))
          /\ RLt(R(0), M[p[1]][p[2]])

\* C2 as claimed: the number of Griffin-Lim iterations a reconstruction runs
\* equals the iteration count of the configuration (stated here for the
\* configurations that hold no invalid value).
C2_RunsConfiguredIterations ==
    (pc = "done" /\ ~InvalidParameters) =>
        /\ i = args.griffin_lim_iterations
        /\ Cardinality({k \in 1..Len(calls) : calls[k].op = "stft"})
               = args.griffin_lim_iterations

\* C3: a griffin_lim call never fails and never stops early; it returns after
\* exactly iter_vocoder passes, having called istft, stft, istft, stft, ...,
\* istft: iter_vocoder stft calls and iter_vocoder + 1 istft calls, and it
\* returns the real part of the last istft result.
C3_CallSequence ==
    /\ pc # "error"
    /\ pc = "gl_loop" => i <= iter_vocoder /\ Len(calls) = 2 * i
    /\ pc = "gl_return" =>
          /\ i = iter_vocoder
          /\ Len(calls) = 2 * iter_vocoder + 1
          /\ \A k \in 1..Len(calls) :
                /\ calls[k].op = (IF k % 2 = 1 THEN "istft" ELSE "stft")
                /\ calls[k].outcome = "ok"
          /\ Cardinality({k \in 1..Len(calls) : calls[k].op = "stft"}) = iter_vocoder
          /\ Cardinality({k \in 1..Len(calls) : calls[k].op = "istft"}) = iter_vocoder + 1
          /\ X_t = Istft(heap[X_best], hop_length, win_length)
          /\ y = X_t

\* every step of the call is the entry, one more pass (while fewer than
\* iter_vocoder have been made) or the return (once iter_vocoder have)
C3_Step ==
    \/ pc = "gl_entry" /\ pc' = "gl_loop" /\ i' = 0 /\ calls' = calls
    \/ /\ pc = "gl_loop" /\ i < iter_vocoder
       /\ pc' = "gl_loop" /\ i' = i + 1
       /\ Len(calls') = Len(calls) + 2
       /\ SubSeq(calls', 1, Len(calls)) = calls
    \/ /\ pc = "gl_loop" /\ i = iter_vocoder
       /\ pc' = "gl_return" /\ i' = i
       /\ Len(calls') = Len(calls) + 1
       /\ SubSeq(calls', 1, Len(calls)) = calls

\* C3: griffin_lim makes exactly iter_vocoder passes with no early exit, its
\* transform calls alternate istft, stft, ..., and end with one more istft
\* whose real part is returned: the call sequence holds in every state and
\* every step is the entry, one more pass, or the return.
C3_FixedIterationCount == []C3_CallSequence /\ [][C3_Step]_vars

C3_Witness == pc = "gl_return" /\ iter_vocoder = MaxIter /\ i = MaxIter /\ Len(y) > 0

\* C4: griffin_lim called with an all-zero spectrogram keeps X_best all-zero
\* after every iteration and returns an all-zero waveform, for every
\* iteration count.
C4_ZeroInZeroOut ==
    (pc \in {"gl_loop", "gl_return"} /\ AllZero(M)) =>
        /\ AllZero(heap[X_best])
        /\ i >= 1 => AllZero(est) /\ AllZero(phase) /\ AllZeroV(X_t)
        /\ pc = "gl_return" => AllZeroV(y) /\ Len(y) > 0

C4_Witness ==
    /\ pc = "gl_return"
    /\ AllZero(M)
    /\ i = MaxIter
    /\ MaxIter >= 1
    /\ AllZeroV(y)
    /\ Len(y) > 0

\* C5 as claimed: with an invalid hop or window length, preemphasis
\* coefficient or max_db, the call is rejected before any reconstruction work:
\* it never denormalises, never calls a transform, never filters, never returns.
C5_InvalidParametersRejected ==
    InvalidParameters =>
        /\ pc # "done"
        /\ heap["db"] = <<>>
        /\ calls = <<>>
        /\ wav = <<>>

\* C6 as claimed: all the transform calls of one reconstruction work with the
\* same n_fft, hop_length, win_length and window; the n_fft istft takes from
\* the bin count equals the n_fft = win_length passed to stft (stated here for
\* the configurations that hold no invalid value).
C6_IdenticalTransformParameters ==
    ~InvalidParameters =>
    \A j, k \in 1..Len(calls) :
        /\ calls[j].n_fft = calls[k].n_fft
        /\ calls[j].hop_length = calls[k].hop_length
        /\ calls[j].win_length = calls[k].win_length
        /\ calls[j].window = calls[k].window
        /\ calls[j].n_fft = n_fft

Denormalized == heap["db"] # <<>>

\* C7: clipping comes before scaling: for an input v in [0, 1] the decibel
\* value and the amplitude are those of the scale and convert steps applied
\* to v itself, for v > 1 those of v = 1, and for v < 0 those of v = 0.
C7_ClipThenScale ==
    Denormalized =>
        \A p \in Elements(heap["db"]) :
            LET v == entry.mag[p[2]][p[1]]
                Unclipped(u) == RAdd(RSub(RMul(u, args.max_db), args.max_db), args.ref_db)
                expected == IF RLt(R(1), v) THEN Unclipped(R(1))
                            ELSE IF RLt(v, R(0)) THEN Unclipped(R(0))
                            ELSE Unclipped(v)
            IN  /\ heap["db"][p[1]][p[2]] = expected
                /\ heap["amp"] # <<>> =>
                      heap["amp"][p[1]][p[2]] = RPow(R(10), RDiv(expected, R(20)))

C7_Witness ==
    /\ pc = "done"
    /\ RLt(R(0), args.max_db)
    /\ \E p \in Elements(heap["amp"]) : RLt(R(1), entry.mag[p[2]][p[1]])
    /\ \E p \in Elements(heap["amp"]) : RLt(entry.mag[p[2]][p[1]], R(0))
    /\ \E p \in Elements(heap["amp"]) :
          RLt(R(0), entry.mag[p[2]][p[1]]) /\ RLt(entry.mag[p[2]][p[1]], R(1))

\* C8: the decibel value of an element is ref_db for input 1 and
\* ref_db - max_db for input 0; for max_db > 0 and any input it lies in
\* [ref_db - max_db, ref_db] and does not decrease when the input grows.
C8_DecibelRange ==
    Denormalized =>
        \A p \in Elements(heap["db"]) :
            LET v == entry.mag[p[2]][p[1]]
                d == heap["db"][p[1]][p[2]]
            IN  /\ v = R(1) => d = args.ref_db
                /\ v = R(0) => d = RSub(args.ref_db, args.max_db)
                /\ RLt(R(0), args.max_db) =>
                      /\ RLe(RSub(args.ref_db, args.max_db), d)
                      /\ RLe(d, args.ref_db)
                      /\ \A q \in Elements(heap["db"]) :
                            RLe(v, entry.mag[q[2]][q[1]]) =>
                                RLe(d, heap["db"][q[1]][q[2]])

C8_Witness ==
    /\ pc = "amplitude"
    /\ RLt(R(0), args.max_db)
    /\ \E p \in Elements(heap["db"]) : entry.mag[p[2]][p[1]] = R(1)
    /\ \E p \in Elements(heap["db"]) : entry.mag[p[2]][p[1]] = R(0)
    /\ \E p, q \in Elements(heap["db"]) : RLt(heap["db"][p[1]][p[2]], heap["db"][q[1]][q[2]])

\* C9: the caller's mag array and griffin_lim's spectrogram argument keep the
\* contents they were passed with through every step, and the magnitude
\* multiplied in at every iteration is the one that was passed.
C9_InputsNeverModified ==
    /\ heap["caller"] = entry.mag
    /\ heap["spec"] = entry.spec
    /\ AfterIteration => heap[X_best] = Mul(M, phase)

C9_Witness ==
    /\ pc = "done"
    /\ i = GriffinLimIters
    /\ heap["db"] # <<>>
    /\ heap["xbest"] # heap["spec"]
    /\ wav # <<>>

RECURSIVE SumN(_, _)
SumN(h, k) == IF k = 0 THEN 0 ELSE SumN(h, k - 1) + h[k][2]

RECURSIVE SumValN(_, _)
SumValN(h, k) == IF k = 0 THEN 0 ELSE SumValN(h, k - 1) + h[k][1] * h[k][2]

\* C10: after reset() and updates (val_k, n_k) with every n_k > 0, count is
\* the sum of the n_k, sum the sum of val_k * n_k, val the last val_k and
\* avg = sum / count; after reset() all four are 0; an update that leaves
\* count at 0 raises instead of completing.
C10_RunningAverage ==
    /\ (am_pc = "ok" /\ hist = <<>>) =>
          val = 0 /\ avg = R(0) /\ sum = 0 /\ count = 0
    /\ (am_pc = "ok" /\ hist # <<>> /\ \A k \in 1..Len(hist) : hist[k][2] > 0) =>
          /\ count = SumN(hist, Len(hist))
          /\ sum = SumValN(hist, Len(hist))
          /\ val = hist[Len(hist)][1]
          /\ IsFinite(avg)
          /\ avg[1] * count = sum * avg[2]
    /\ (hist # <<>> /\ SumN(hist, Len(hist)) = 0) => am_pc = "raised"
    /\ am_pc = "raised" => count = 0

C10_Witness ==
    /\ am_pc = "ok"
    /\ Len(hist) = MaxUpdates
    /\ \A k \in 1..Len(hist) : hist[k][2] > 0
    /\ \E k \in 1..Len(hist) : hist[k][2] > 1
    /\ \E j, k \in 1..Len(hist) : hist[j][1] # hist[k][1]
    /\ avg[2] > 1

====
